---- MODULE Spec2Model ----
(***************************************************************************)
(* Model of nested-template-rs (src/src/lib.rs): the brace tokenizer       *)
(* render_helper and the NestedTemplate tree with new, add_sub_template    *)
(* and render.  A Rust &str / String is a sequence of one-character        *)
(* strings; every character of the alphabet is ASCII, so byte offsets and  *)
(* sequence indexes agree (Rust offsets are 0-based, sequences 1-based).   *)
(***************************************************************************)
EXTENDS Integers, Sequences, FiniteSets, TLC

VARIABLES
    text,       \* SpecHelper: the body string under test
    pc,         \* SpecHelper: "new", "tokenized" or "rendered"
    segs,       \* SpecHelper: what render_helper(text) returned
    kids,       \* SpecHelper: the names given a child before render
    rendered,   \* SpecHelper: what render returned
    slots,      \* Spec: the caller's live NestedTemplate values, by creation number
    created,    \* Spec: number of NestedTemplate::new calls so far
    born,       \* Spec: the body each live template was constructed with
    log,        \* Spec: the add_sub_template calls made on each live template
    out         \* Spec: the return value of the last call, when it was render

vars == <<text, pc, segs, kids, rendered, slots, created, born, log, out>>

helperVars == <<text, pc, segs, kids, rendered>>

treeVars == <<slots, created, born, log, out>>

\* ------------------------------------------------------------------ bounds

\* Longest body handed to the tokenizer in SpecHelper.
MaxLen == 7

\* Number of NestedTemplate::new calls in one run of Spec.
MaxTemplates == 3

\* ---------------------------------------------------------------- alphabet

Whitespace == {" "}

Chars == {"{", "}", "a", " "}

Strings == UNION {[1..n -> Chars] : n \in 0..MaxLen}

\* ------------------------------------------------------------ result values

\* Option::None of str::find.
None == -1

NoErr == [kind |-> "None", pos |-> 0, name |-> <<>>]

MissingOpenBrace(loc) == [kind |-> "MissingOpenBrace", pos |-> loc, name |-> <<>>]

MissingCloseBrace(loc) == [kind |-> "MissingCloseBrace", pos |-> loc, name |-> <<>>]

MissingTemplate(n) == [kind |-> "MissingTemplate", pos |-> 0, name |-> n]

Ok(v) == [ok |-> TRUE, val |-> v, err |-> NoErr]

Err(e) == [ok |-> FALSE, val |-> <<>>, err |-> e]

\* One (bool, String) pair of render_helper's vector.
Pair(is_template, value) == [is_template |-> is_template, value |-> value]

\* ---------------------------------------------------------------- tokenizer

\* str::find: the 0-based offset of the first occurrence of pat, or None.
find(body, pat) ==
    LET hits == {i \in 0..(Len(body) - Len(pat)) :
                    SubSeq(body, i + 1, i + Len(pat)) = pat}
    IN  IF hits = {} THEN None
        ELSE CHOOSE i \in hits : \A j \in hits : i <= j

\* &body[..start_escape]
pre_escape(body, start_escape) == SubSeq(body, 1, start_escape)

\* post_escape skipping one character of the escape instead of two.
post_escape_one(body, start_escape) ==
    IF start_escape + 1 < Len(body)
    THEN SubSeq(body, start_escape + 2, Len(body))
    ELSE <<>>

\* "" unless start_escape + 2 < body.len(), then &body[start_escape + 2..]
post_escape(body, start_escape) ==
    IF start_escape + 2 < Len(body)
    THEN SubSeq(body, start_escape + 3, Len(body))
    ELSE <<>>

RECURSIVE trim_start(_)
trim_start(s) ==
    IF s # <<>> /\ Head(s) \in Whitespace THEN trim_start(Tail(s)) ELSE s

RECURSIVE trim_end(_)
trim_end(s) ==
    IF s # <<>> /\ s[Len(s)] \in Whitespace
    THEN trim_end(SubSeq(s, 1, Len(s) - 1))
    ELSE s

\* str::trim
trim(s) == trim_end(trim_start(s))

\* template_name without the trim.
template_name_untrimmed(body, start_template, end_template) ==
    SubSeq(body, start_template + 2, end_template)

\* &body[start_template + 1..end_template].trim()
template_name(body, start_template, end_template) ==
    trim(SubSeq(body, start_template + 2, end_template))

\* &body[..start_template]
pre_template(body, start_template) == SubSeq(body, 1, start_template)

\* &body[end_template + 1..]
post_template(body, end_template) == SubSeq(body, end_template + 2, Len(body))

\* brace_error reporting a close brace before the first open brace as the open
\* brace left unclosed.
brace_error_swapped(start_template, end_template) ==
    IF start_template # None /\ end_template = None
    THEN MissingCloseBrace(start_template)
    ELSE IF start_template = None /\ end_template # None
    THEN MissingOpenBrace(end_template)
    ELSE IF start_template # None /\ end_template # None
            /\ start_template > end_template
    THEN MissingCloseBrace(start_template)
    ELSE NoErr

\* brace_error without the return for a close brace that has no open brace.
brace_error_no_stray_close(start_template, end_template) ==
    IF start_template # None /\ end_template = None
    THEN MissingCloseBrace(start_template)
    ELSE IF start_template # None /\ end_template # None
            /\ start_template > end_template
    THEN MissingOpenBrace(end_template)
    ELSE NoErr

\* The three malformed-brace returns of render_helper, NoErr when none applies.
brace_error(start_template, end_template) ==
    IF start_template # None /\ end_template = None
    THEN MissingCloseBrace(start_template)
    ELSE IF start_template = None /\ end_template # None
    THEN MissingOpenBrace(end_template)
    ELSE IF start_template # None /\ end_template # None
            /\ start_template > end_template
    THEN MissingOpenBrace(end_template)
    ELSE NoErr

\* body.find("{{")
open_escape(body) == find(body, <<"{", "{">>)

\* The offset of the last "}}" of body instead of the first.
close_escape_last(body) ==
    LET hits == {i \in 0..(Len(body) - 2) : SubSeq(body, i + 1, i + 2) = <<"}", "}">>}
    IN  IF hits = {} THEN None
        ELSE CHOOSE i \in hits : \A j \in hits : i >= j

\* body.find("}}")
close_escape(body) == find(body, <<"}", "}">>)

RECURSIVE render_helper(_)

\* An escaped brace at start_escape: the text before it, the brace, the text after.
escaped(body, start_escape, brace) ==
    LET pre_vec  == render_helper(pre_escape(body, start_escape))
        post_vec == render_helper(post_escape(body, start_escape))
    IN  IF ~pre_vec.ok THEN pre_vec
        ELSE IF ~post_vec.ok THEN post_vec
        ELSE Ok(pre_vec.val \o <<Pair(FALSE, <<brace>>)>> \o post_vec.val)

\* placeholder turning the position of an error in the text after it into an
\* offset in body.
placeholder_global(body, start_template, end_template) ==
    LET post_vec == render_helper(post_template(body, end_template))
    IN  IF ~post_vec.ok
        THEN IF post_vec.err.kind = "MissingTemplate" THEN post_vec
             ELSE Err([post_vec.err EXCEPT !.pos = @ + end_template + 1])
        ELSE Ok(<<Pair(FALSE, pre_template(body, start_template)),
                  Pair(TRUE, template_name(body, start_template, end_template))>>
                \o post_vec.val)

\* A placeholder from start_template to end_template and the text after it.
placeholder(body, start_template, end_template) ==
    LET post_vec == render_helper(post_template(body, end_template))
    IN  IF ~post_vec.ok THEN post_vec
        ELSE Ok(<<Pair(FALSE, pre_template(body, start_template)),
                  Pair(TRUE, template_name(body, start_template, end_template))>>
                \o post_vec.val)

render_helper(body) ==
    LET start_template == find(body, <<"{">>)
        end_template   == find(body, <<"}">>)
    IN  IF open_escape(body) # None THEN escaped(body, open_escape(body), "{")
        ELSE IF close_escape(body) # None THEN escaped(body, close_escape(body), "}")
        ELSE IF start_template = None /\ end_template = None
        THEN Ok(<<Pair(FALSE, body)>>)
        ELSE IF brace_error(start_template, end_template) # NoErr
        THEN Err(brace_error(start_template, end_template))
        ELSE placeholder(body, start_template, end_template)

\* ------------------------------------------------------------ template tree

\* NestedTemplate::new
new(body) == [body |-> body, sub_templates |-> <<>>]

\* insert keeping the entry already held under name.
insert_keep_first(map, name, template) ==
    [k \in DOMAIN map \cup {name} |-> IF k \in DOMAIN map THEN map[k] ELSE template]

\* HashMap::insert: the entry under name is set, the others are kept.
insert(map, name, template) ==
    [k \in DOMAIN map \cup {name} |-> IF k = name THEN template ELSE map[k]]

\* NestedTemplate::add_sub_template
add_sub_template(self, name, template) ==
    [self EXCEPT !.sub_templates = insert(self.sub_templates, name, template)]

RECURSIVE render(_)

RECURSIVE render_pairs(_, _, _, _)

\* render_pairs putting each literal before the text accumulated so far.
render_pairs_prepend(self, pairs, i, rendered_template) ==
    IF i > Len(pairs) THEN Ok(rendered_template)
    ELSE IF pairs[i].is_template
    THEN IF pairs[i].value \notin DOMAIN self.sub_templates
         THEN Err(MissingTemplate(pairs[i].value))
         ELSE LET sub == render(self.sub_templates[pairs[i].value])
              IN  IF ~sub.ok THEN Err(sub.err)
                  ELSE render_pairs(self, pairs, i + 1, rendered_template \o sub.val)
    ELSE render_pairs(self, pairs, i + 1, pairs[i].value \o rendered_template)

\* render_pairs skipping a placeholder that names no child.
render_pairs_skip_missing(self, pairs, i, rendered_template) ==
    IF i > Len(pairs) THEN Ok(rendered_template)
    ELSE IF pairs[i].is_template
    THEN IF pairs[i].value \notin DOMAIN self.sub_templates
         THEN render_pairs(self, pairs, i + 1, rendered_template)
         ELSE LET sub == render(self.sub_templates[pairs[i].value])
              IN  IF ~sub.ok THEN Err(sub.err)
                  ELSE render_pairs(self, pairs, i + 1, rendered_template \o sub.val)
    ELSE render_pairs(self, pairs, i + 1, rendered_template \o pairs[i].value)

\* The loop of render from pair i on, rendered_template being the accumulator.
render_pairs(self, pairs, i, rendered_template) ==
    IF i > Len(pairs) THEN Ok(rendered_template)
    ELSE IF pairs[i].is_template
    THEN IF pairs[i].value \notin DOMAIN self.sub_templates
         THEN Err(MissingTemplate(pairs[i].value))
         ELSE LET sub == render(self.sub_templates[pairs[i].value])
              IN  IF ~sub.ok THEN Err(sub.err)
                  ELSE render_pairs(self, pairs, i + 1, rendered_template \o sub.val)
    ELSE render_pairs(self, pairs, i + 1, rendered_template \o pairs[i].value)

\* render looking the children up before it reports a malformed body: the
\* placeholders of the text before the first stray brace are resolved first.
render_lookup_first(self) ==
    LET pairs == render_helper(self.body)
        stray == IF pairs.ok THEN Len(self.body)
                 ELSE CHOOSE k \in 0..Len(self.body) :
                        /\ render_helper(SubSeq(self.body, 1, k)).ok
                        /\ \A m \in (k + 1)..Len(self.body) :
                              ~render_helper(SubSeq(self.body, 1, m)).ok
        head  == render_pairs(self, render_helper(SubSeq(self.body, 1, stray)).val, 1, <<>>)
    IN  IF pairs.ok THEN render_pairs(self, pairs.val, 1, <<>>)
        ELSE IF ~head.ok THEN head
        ELSE Err(pairs.err)

render(self) ==
    LET pairs == render_helper(self.body)
    IN  IF ~pairs.ok THEN Err(pairs.err)
        ELSE render_pairs(self, pairs.val, 1, <<>>)

\* ------------------------------------------------------------------ inputs

\* Child names used by the callers.
Names == {<<"a">>, <<>>}

\* Bodies used to build trees: a literal, an escaped brace, one placeholder,
\* three placeholders (padded name, empty name, repeated name), and a placeholder
\* followed by a stray close brace.
LiteralBody == <<"x">>

EscapedBody == <<"{", "{">>

OneBody == <<"{", "a", "}", "y">>

ManyBody == <<"{", " ", "a", " ", "}", "{", "}", "{", "a", "}">>

BrokenBody == <<"{", "a", "}", "x", "}">>

TreeBodies == {LiteralBody, EscapedBody, OneBody, ManyBody, BrokenBody}

\* The body of the leaf attached under name n in SpecHelper.
LeafBody(n) == <<"<">> \o n \o <<">">>

RECURSIVE with_leaves(_, _)
\* new(body) followed by add_sub_template(n, new(LeafBody(n))) for each n of ns.
with_leaves(self, ns) ==
    IF ns = {} THEN self
    ELSE LET n == CHOOSE x \in ns : TRUE
         IN  with_leaves(add_sub_template(self, n, new(LeafBody(n))), ns \ {n})

NotRun == Err(NoErr)

NoOut == [called |-> FALSE, slot |-> 0, res |-> NotRun]

\* ------------------------------------------------- SpecHelper: the tokenizer

InitHelper ==
    /\ text \in Strings
    /\ pc = "new"
    /\ segs = NotRun
    /\ kids = {}
    /\ rendered = NotRun
    /\ slots = <<>>
    /\ created = 0
    /\ born = <<>>
    /\ log = <<>>
    /\ out = NoOut

\* render_helper(text)
Tokenize ==
    /\ pc = "new"
    /\ segs' = render_helper(text)
    /\ pc' = "tokenized"
    /\ UNCHANGED <<text, kids, rendered>>
    /\ UNCHANGED treeVars

\* NestedTemplate::new(text), a leaf added under each name of ns, then render().
RenderBody ==
    /\ pc = "tokenized"
    /\ \E ns \in SUBSET Names :
          /\ kids' = ns
          /\ rendered' = render(with_leaves(new(text), ns))
    /\ pc' = "rendered"
    /\ UNCHANGED <<text, segs>>
    /\ UNCHANGED treeVars

NextHelper == Tokenize \/ RenderBody

SpecHelper == InitHelper /\ [][NextHelper]_vars

\* ------------------------------------------------ Spec: the template tree

Init ==
    /\ text = <<>>
    /\ pc = "new"
    /\ segs = NotRun
    /\ kids = {}
    /\ rendered = NotRun
    /\ slots = <<>>
    /\ created = 0
    /\ born = <<>>
    /\ log = <<>>
    /\ out = NoOut

\* let t = NestedTemplate::new(b)
New(b) ==
    /\ created < MaxTemplates
    /\ created' = created + 1
    /\ slots' = [i \in DOMAIN slots \cup {created + 1} |->
                    IF i = created + 1 THEN new(b) ELSE slots[i]]
    /\ born' = [i \in DOMAIN slots \cup {created + 1} |->
                    IF i = created + 1 THEN b ELSE born[i]]
    /\ log' = [i \in DOMAIN slots \cup {created + 1} |->
                    IF i = created + 1 THEN <<>> ELSE log[i]]
    /\ out' = NoOut
    /\ UNCHANGED helperVars

\* p.add_sub_template(n, c): c is moved into p and is no longer the caller's.
AddSubTemplate(p, n, c) ==
    /\ p \in DOMAIN slots
    /\ c \in DOMAIN slots
    /\ p # c
    /\ slots' = [i \in DOMAIN slots \ {c} |->
                    IF i = p THEN add_sub_template(slots[p], n, slots[c])
                    ELSE slots[i]]
    /\ born' = [i \in DOMAIN slots \ {c} |-> born[i]]
    /\ log' = [i \in DOMAIN slots \ {c} |->
                    IF i = p THEN Append(log[p], [name |-> n, template |-> slots[c]])
                    ELSE log[i]]
    /\ out' = NoOut
    /\ UNCHANGED created
    /\ UNCHANGED helperVars

\* p.render()
Render(p) ==
    /\ p \in DOMAIN slots
    /\ out' = [called |-> TRUE, slot |-> p, res |-> render(slots[p])]
    /\ UNCHANGED <<slots, created, born, log>>
    /\ UNCHANGED helperVars

Next ==
    \/ \E b \in TreeBodies : New(b)
    \/ \E p \in 1..MaxTemplates, n \in Names, c \in 1..MaxTemplates :
          AddSubTemplate(p, n, c)
    \/ \E p \in 1..MaxTemplates : Render(p)

Spec == Init /\ [][Next]_vars

\* --------------------------------------------- vocabulary of the properties

Braces == {"{", "}"}

Has(s, c) == \E i \in 1..Len(s) : s[i] = c

\* 0-based offset of the first c in s (s has one).
First(s, c) == CHOOSE i \in 0..(Len(s) - 1) :
                  /\ s[i + 1] = c
                  /\ \A j \in 0..(i - 1) : s[j + 1] # c

Count(s, c) == Cardinality({i \in 1..Len(s) : s[i] = c})

\* s contains neither "{{" nor "}}".
NoDoubled(s) == \A i \in 1..(Len(s) - 1) : ~(s[i] \in Braces /\ s[i + 1] = s[i])

BraceFree(s) == \A i \in 1..Len(s) : s[i] \notin Braces

RECURSIVE IsUnitBody(_)
\* s is a run of non-brace characters and of the units "{{" and "}}".
IsUnitBody(s) ==
    IF s = <<>> THEN TRUE
    ELSE IF Head(s) \notin Braces THEN IsUnitBody(Tail(s))
    ELSE Len(s) >= 2 /\ s[2] = s[1] /\ IsUnitBody(SubSeq(s, 3, Len(s)))

RECURSIVE Unescape(_)
\* A unit body with every "{{" replaced by "{" and every "}}" by "}".
Unescape(s) ==
    IF s = <<>> THEN <<>>
    ELSE IF Head(s) \notin Braces THEN <<Head(s)>> \o Unescape(Tail(s))
    ELSE <<Head(s)>> \o Unescape(SubSeq(s, 3, Len(s)))

AllLiteral(v) == \A i \in 1..Len(v) : ~v[i].is_template

\* w without its leading and trailing whitespace: the one infix of w that is
\* flanked by whitespace only and neither starts nor ends with whitespace.
Stripped(w) ==
    LET cuts == {lr \in (0..Len(w)) \X (0..Len(w)) :
                    /\ lr[1] + lr[2] <= Len(w)
                    /\ \A i \in 1..lr[1] : w[i] \in Whitespace
                    /\ \A i \in (Len(w) - lr[2] + 1)..Len(w) : w[i] \in Whitespace
                    /\ LET n == SubSeq(w, lr[1] + 1, Len(w) - lr[2])
                       IN  n = <<>> \/ (n[1] \notin Whitespace /\ n[Len(n)] \notin Whitespace)}
        lr == CHOOSE x \in cuts : TRUE
    IN  SubSeq(w, lr[1] + 1, Len(w) - lr[2])

\* The error the claims give a body without doubled braces, NoErr when they give
\* none: a lone kind of brace, or a close brace before the first open brace.
StrayError(s) ==
    IF Has(s, "{") /\ ~Has(s, "}") THEN MissingCloseBrace(First(s, "{"))
    ELSE IF Has(s, "}") /\ ~Has(s, "{") THEN MissingOpenBrace(First(s, "}"))
    ELSE IF Has(s, "{") /\ Has(s, "}") /\ First(s, "}") < First(s, "{")
    THEN MissingOpenBrace(First(s, "}"))
    ELSE NoErr

\* ------------------------------------------------------------------- claims

\* C2: a body made only of non-brace characters and the units "{{" and "}}"
\* tokenizes to literal segments only, and a childless template with that body
\* renders to the body with each unit replaced by its single brace; a brace-free
\* body is one literal segment equal to the input and renders unchanged.
C2_EscapesOnly ==
    (pc # "new" /\ IsUnitBody(text)) =>
        /\ segs.ok
        /\ AllLiteral(segs.val)
        /\ BraceFree(text) => segs.val = <<Pair(FALSE, text)>>
        /\ (pc = "rendered" /\ kids = {}) => rendered = Ok(Unescape(text))

C2_Witness ==
    /\ pc = "rendered"
    /\ kids = {}
    /\ text = <<"}", "}", "a", "{", "{">>
    /\ rendered = Ok(<<"}", "a", "{">>)

\* C3: without doubled braces, a body with an open brace and no close brace fails
\* with MissingCloseBrace(first open brace), one with a close brace and no open
\* brace fails with MissingOpenBrace(first close brace), and one whose first close
\* brace precedes its first open brace fails with MissingOpenBrace(first close brace).
C3_StrayBrace ==
    (pc # "new" /\ NoDoubled(text) /\ StrayError(text) # NoErr) =>
        segs = Err(StrayError(text))

C3_Witness ==
    /\ pc = "tokenized"
    /\ text = <<"a", "}", " ", "{", "a">>
    /\ segs = Err(MissingOpenBrace(1))

\* The form "{" x "{" y "}" z "}" with x, y, z brace-free.
NestedForm(s) ==
    /\ Len(s) >= 4
    /\ s[1] = "{"
    /\ s[Len(s)] = "}"
    /\ Count(s, "{") = 2
    /\ Count(s, "}") = 2
    /\ \E j \in 2..(Len(s) - 2) : s[j] = "{" /\ First(s, "}") + 1 > j

\* x and z of a body in NestedForm.
NestedX(s) == SubSeq(s, 2, (CHOOSE j \in 2..Len(s) : s[j] = "{") - 1)

NestedY(s) == SubSeq(s, (CHOOSE j \in 2..Len(s) : s[j] = "{") + 1, First(s, "}"))

NestedZ(s) == SubSeq(s, First(s, "}") + 2, Len(s) - 1)

\* C5 as stated: every body "{" x "{" y "}" z "}" with x, y, z brace-free
\* (possibly empty) makes render_helper return Err.
C5_NestedAlwaysErr ==
    (pc # "new" /\ NestedForm(text)) => ~segs.ok

\* C5 amended: such a body makes render_helper return Err whenever x or z is
\* non-empty; with x and z both empty the body is "{{" y "}}", two escaped
\* braces, and the result is Ok with the literal segments "", "{", y, "}", ""
\* and no placeholder segment.
C5_NestedNeverPlaceholder ==
    (pc # "new" /\ NestedForm(text)) =>
        IF NestedX(text) = <<>> /\ NestedZ(text) = <<>>
        THEN segs = Ok(<<Pair(FALSE, <<>>), Pair(FALSE, <<"{">>),
                         Pair(FALSE, NestedY(text)), Pair(FALSE, <<"}">>),
                         Pair(FALSE, <<>>)>>)
        ELSE ~segs.ok

C5_Witness ==
    /\ pc = "tokenized"
    /\ text = <<"{", " ", "{", "a", "}", " ", "}">>
    /\ segs = Err(MissingOpenBrace(1))

\* A body with one open brace and, after it, one close brace.
OnePlaceholder(s) ==
    /\ Count(s, "{") = 1
    /\ Count(s, "}") = 1
    /\ First(s, "{") < First(s, "}")

Before(s) == SubSeq(s, 1, First(s, "{"))

Between(s) == SubSeq(s, First(s, "{") + 2, First(s, "}"))

After(s) == SubSeq(s, First(s, "}") + 2, Len(s))

\* C6: the name of a placeholder is the text strictly between its braces without
\* leading and trailing whitespace, possibly empty, and render looks the child up
\* under that name: "{ a }" under "a", "{}" and "{ }" under "".
C6_TrimmedName ==
    (pc # "new" /\ OnePlaceholder(text)) =>
        /\ segs = Ok(<<Pair(FALSE, Before(text)),
                       Pair(TRUE, Stripped(Between(text))),
                       Pair(FALSE, After(text))>>)
        /\ pc = "rendered" =>
              IF Stripped(Between(text)) \in kids
              THEN rendered = Ok(Before(text) \o LeafBody(Stripped(Between(text)))
                                 \o After(text))
              ELSE rendered = Err(MissingTemplate(Stripped(Between(text))))

C6_Witness ==
    /\ pc = "rendered"
    /\ text = <<"{", " ", "}">>
    /\ segs = Ok(<<Pair(FALSE, <<>>), Pair(TRUE, <<>>), Pair(FALSE, <<>>)>>)
    /\ kids = {<<>>}
    /\ rendered = Ok(<<"<", ">">>)

\* p is tokenized on its own and ends with the close brace of a placeholder.
EndsWithPlaceholder(p) ==
    /\ render_helper(p).ok
    /\ p[Len(p)] = "}"
    /\ ~(Len(p) >= 2 /\ p[Len(p) - 1] = "}")

\* p is tokenized on its own and ends with an escaped brace.
EndsWithEscape(p) ==
    /\ render_helper(p).ok
    /\ Len(p) >= 2
    /\ p[Len(p)] \in Braces
    /\ p[Len(p) - 1] = p[Len(p)]

\* C9: the position of MissingOpenBrace and MissingCloseBrace is the index of the
\* offending brace in the slice scanned when the failure is detected.  For a body
\* p ++ s, p ending with a placeholder or an escaped brace and s the malformed
\* remainder (no doubled brace in it, and none formed where p meets s), the error
\* is the one of s alone, with the brace's index in s; for a body s ++ e ++ q, e
\* an escaped brace and s the malformed text before it, likewise.
C9_SlicePosition ==
    pc # "new" =>
        /\ \A k \in 1..(Len(text) - 1) :
              LET p == SubSeq(text, 1, k)
                  s == SubSeq(text, k + 1, Len(text))
              IN  (/\ NoDoubled(s)
                   /\ StrayError(s) # NoErr
                   /\ \/ EndsWithEscape(p)
                      \/ EndsWithPlaceholder(p) /\ s[1] # "}")
                  => segs = Err(StrayError(s))
        /\ \A k \in 1..(Len(text) - 2) :
              LET s == SubSeq(text, 1, k)
              IN  (/\ NoDoubled(s)
                   /\ StrayError(s) # NoErr
                   /\ text[k + 1] \in Braces
                   /\ text[k + 2] = text[k + 1]
                   /\ s[k] # text[k + 1])
                  => segs = Err(StrayError(s))

C9_Witness ==
    /\ pc = "tokenized"
    /\ text = <<"{", "a", "}", "a", "}">>
    /\ segs = Err(MissingOpenBrace(1))

RECURSIVE Mirror(_)
\* s reversed, with "{" and "}" swapped.
Mirror(s) ==
    IF s = <<>> THEN <<>>
    ELSE Append(Mirror(Tail(s)),
                IF Head(s) = "{" THEN "}" ELSE IF Head(s) = "}" THEN "{" ELSE Head(s))

\* i starts a maximal run of one brace character in s.
RunStart(s, i) == s[i] \in Braces /\ (i = 1 \/ s[i - 1] # s[i])

\* Length of the maximal run that starts at i.
RunLen(s, i) ==
    CHOOSE n \in 1..(Len(s) - i + 1) :
        /\ \A j \in i..(i + n - 1) : s[j] = s[i]
        /\ (i + n > Len(s) \/ s[i + n] # s[i])

\* i is a brace that stands alone.
Single(s, i) == RunStart(s, i) /\ RunLen(s, i) = 1

\* Every run of one brace character has length 1 or an even length, and the
\* braces that stand alone are alternately "{" and "}".
EvenRunsAlternating(s) ==
    /\ \A i \in 1..Len(s) :
          RunStart(s, i) => (RunLen(s, i) = 1 \/ RunLen(s, i) % 2 = 0)
    /\ \A i, j \in 1..Len(s) :
          (/\ i < j
           /\ Single(s, i)
           /\ Single(s, j)
           /\ \A k \in (i + 1)..(j - 1) : ~Single(s, k))
          => s[i] # s[j]

\* The body "{{{" n "}" and the body "{" n "}}}", n brace-free.
EscapeThenPlaceholder(s) ==
    /\ Len(s) >= 4
    /\ SubSeq(s, 1, 3) = <<"{", "{", "{">>
    /\ s[Len(s)] = "}"
    /\ BraceFree(SubSeq(s, 4, Len(s) - 1))

PlaceholderThenEscape(s) ==
    /\ Len(s) >= 4
    /\ s[1] = "{"
    /\ SubSeq(s, Len(s) - 2, Len(s)) = <<"}", "}", "}">>
    /\ BraceFree(SubSeq(s, 2, Len(s) - 3))

\* C10 as stated: render_helper accepts a body if and only if it accepts its
\* mirror image; "{{{a}" and "{a}}}" are both accepted.
C10_MirrorSymmetric ==
    pc # "new" =>
        /\ segs.ok <=> render_helper(Mirror(text)).ok
        /\ (EscapeThenPlaceholder(text) \/ PlaceholderThenEscape(text)) => segs.ok

\* C10 amended: "}}" is searched leftmost-first like "{{", which is not mirror
\* symmetric.  "{{{" n "}" is accepted as literal "{" and placeholder n, while
\* "{" n "}}}" is rejected with MissingCloseBrace(0), the leftmost "}}" being the
\* escape.  Acceptance of a body and of its mirror image agree for the bodies
\* whose brace runs have length 1 or an even length and whose lone braces are
\* alternately "{" and "}".
C10_LeftmostEscape ==
    pc # "new" =>
        /\ EscapeThenPlaceholder(text) =>
              segs = Ok(<<Pair(FALSE, <<>>), Pair(FALSE, <<"{">>), Pair(FALSE, <<>>),
                          Pair(TRUE, Stripped(SubSeq(text, 4, Len(text) - 1))),
                          Pair(FALSE, <<>>)>>)
        /\ PlaceholderThenEscape(text) => segs = Err(MissingCloseBrace(0))
        /\ EvenRunsAlternating(text) =>
              (segs.ok <=> render_helper(Mirror(text)).ok)

C10_Witness ==
    /\ pc = "tokenized"
    /\ text = <<"{", "a", "}", "}", "}">>
    /\ render_helper(Mirror(text)).ok
    /\ segs = Err(MissingCloseBrace(0))

\* ------------------------------------------------ claims on the template tree

RECURSIVE Resolves(_)
\* The body of t tokenizes and every placeholder names a child of t of which the
\* same holds.
Resolves(t) ==
    LET tk == render_helper(t.body)
    IN  /\ tk.ok
        /\ \A i \in 1..Len(tk.val) :
              tk.val[i].is_template =>
                  /\ tk.val[i].value \in DOMAIN t.sub_templates
                  /\ Resolves(t.sub_templates[tk.val[i].value])

RECURSIVE Expected(_)

RECURSIVE Pieces(_, _)
\* The texts of the segments ps of t, a placeholder's text being the expected
\* output of the child it names, joined from left to right.
Pieces(t, ps) ==
    IF ps = <<>> THEN <<>>
    ELSE (IF Head(ps).is_template
          THEN Expected(t.sub_templates[Head(ps).value])
          ELSE Head(ps).value)
         \o Pieces(t, Tail(ps))

Expected(t) == Pieces(t, render_helper(t.body).val)

\* The template the last call rendered.
Rendered == slots[out.slot]

\* C1: when the body tokenizes and every placeholder, in the template and in every
\* referenced child, names a child, render returns Ok with the literal segments and
\* the children's full outputs joined from left to right, a child referenced at
\* several placeholders contributing at each.
C1_RenderConcatenates ==
    (out.called /\ Resolves(Rendered)) => out.res = Ok(Expected(Rendered))

C1_Witness ==
    /\ out.called
    /\ Rendered.body = ManyBody
    /\ DOMAIN Rendered.sub_templates = Names
    /\ Rendered.sub_templates[<<"a">>].body = LiteralBody
    /\ Rendered.sub_templates[<<>>].body = EscapedBody
    /\ out.res = Ok(<<"x", "{", "x">>)

\* Placeholder i of pairs names no child of t.
Missing(t, ps, i) ==
    ps[i].is_template /\ ps[i].value \notin DOMAIN t.sub_templates

\* Placeholder i of pairs names a child of t whose render fails.
ChildFails(t, ps, i) ==
    /\ ps[i].is_template
    /\ ps[i].value \in DOMAIN t.sub_templates
    /\ ~render(t.sub_templates[ps[i].value]).ok

\* C4: when the body tokenizes, n is the leftmost placeholder name that is no key
\* of the children and every placeholder to its left names a child that renders,
\* render fails with MissingTemplate(n) and carries no output.
C4_MissingTemplate ==
    out.called =>
        LET tk == render_helper(Rendered.body)
        IN  tk.ok =>
              \A i \in 1..Len(tk.val) :
                  (/\ Missing(Rendered, tk.val, i)
                   /\ \A j \in 1..(i - 1) :
                         ~Missing(Rendered, tk.val, j) /\ ~ChildFails(Rendered, tk.val, j))
                  => /\ out.res.err = MissingTemplate(tk.val[i].value)
                     /\ ~out.res.ok
                     /\ out.res.val = <<>>

C4_Witness ==
    /\ out.called
    /\ Rendered.body = ManyBody
    /\ DOMAIN Rendered.sub_templates = {<<"a">>}
    /\ render(Rendered.sub_templates[<<"a">>]).ok
    /\ out.res = Err(MissingTemplate(<<>>))

\* The child the last add_sub_template call with name n on a template passed, l
\* being the calls made on the template.
LastAdded(l, n) ==
    l[CHOOSE i \in 1..Len(l) :
          /\ l[i].name = n
          /\ \A j \in (i + 1)..Len(l) : l[j].name # n].template

\* C7: after any sequence of add_sub_template calls a template holds, under each
\* name, the template of the most recent call with that name and nothing else, its
\* body is the one it was built with, and render substitutes that most recent
\* child at the first placeholder.
C7_LastWriteWins ==
    /\ \A p \in DOMAIN slots :
          /\ slots[p].body = born[p]
          /\ DOMAIN slots[p].sub_templates = {log[p][i].name : i \in 1..Len(log[p])}
          /\ \A n \in DOMAIN slots[p].sub_templates :
                slots[p].sub_templates[n] = LastAdded(log[p], n)
    /\ out.called =>
          LET tk == render_helper(born[out.slot])
              l  == log[out.slot]
          IN  (/\ tk.ok
               /\ Len(tk.val) >= 2
               /\ tk.val[2].is_template
               /\ \E i \in 1..Len(l) : l[i].name = tk.val[2].value)
              => LET sub == render(LastAdded(l, tk.val[2].value))
                     pre == tk.val[1].value \o sub.val
                 IN  IF sub.ok
                     THEN out.res.ok => SubSeq(out.res.val, 1, Len(pre)) = pre
                     ELSE out.res = Err(sub.err)

C7_Witness ==
    /\ out.called
    /\ born[out.slot] = OneBody
    /\ Len(log[out.slot]) = 2
    /\ log[out.slot][1] = [name |-> <<"a">>, template |-> new(BrokenBody)]
    /\ log[out.slot][2] = [name |-> <<"a">>, template |-> new(LiteralBody)]
    /\ out.res = Ok(<<"x", "y">>)

\* C8: render returns exactly one error.  A malformed body gives the tokenizer's
\* error unchanged whatever the children are; a body that tokenizes gives the error
\* of the leftmost placeholder whose child is missing or fails to render, the
\* child's own error being passed on unchanged.
C8_FirstError ==
    out.called =>
        LET tk == render_helper(Rendered.body)
        IN  IF ~tk.ok THEN out.res = Err(tk.err)
            ELSE \A i \in 1..Len(tk.val) :
                    (/\ Missing(Rendered, tk.val, i) \/ ChildFails(Rendered, tk.val, i)
                     /\ \A j \in 1..(i - 1) :
                           ~Missing(Rendered, tk.val, j) /\ ~ChildFails(Rendered, tk.val, j))
                    => out.res =
                         IF Missing(Rendered, tk.val, i)
                         THEN Err(MissingTemplate(tk.val[i].value))
                         ELSE Err(render(Rendered.sub_templates[tk.val[i].value]).err)

C8_Witness ==
    /\ out.called
    /\ Rendered.body = BrokenBody
    /\ DOMAIN Rendered.sub_templates = {<<"a">>}
    /\ render(Rendered.sub_templates[<<"a">>]) = Err(MissingTemplate(<<"a">>))
    /\ out.res = Err(MissingOpenBrace(1))

====
